---- MODULE Spec2Model ----
(***************************************************************************)
(* The cleaning pipeline of DU_IRA_Assessment_Cleaning_Code_Paul_Martinez  *)
(* as a state machine: one action per numbered step of the script.  A data *)
(* frame is a sequence of records (one record per row, one field per       *)
(* column).  A text cell is a sequence of one-character strings, so that   *)
(* trimming, case folding, prefix tests and parsing are computed character *)
(* by character; a missing cell is NaN.  Numeric cells are <<n>>, a        *)
(* missing numeric cell is <<>>.                                           *)
(***************************************************************************)
EXTENDS Integers, Sequences, FiniteSets, TLC

VARIABLES pc, error, present, log,
          file_enrollment, file_grades, file_program,
          fall_enrollment, grades, program_data,
          enroll_plus_gr, df_final, term_gpa,
          w3, end, student_term, student_level,
          dup_count, csv,
          apc, aerror, disk, created

vars == <<pc, error, present, log, file_enrollment, file_grades, file_program,
          fall_enrollment, grades, program_data,
          enroll_plus_gr, df_final, term_gpa,
          w3, end, student_term, student_level, dup_count, csv,
          apc, aerror, disk, created>>

-----------------------------------------------------------------------------
(* Text: characters in ASCII order, and the str methods the script uses.   *)

Alphabet ==
  << " ", "+", "-",
     "0", "1", "2", "3", "4", "5", "6", "7", "8", "9",
     "A", "B", "C", "D", "E", "F", "G", "H", "I", "J", "K", "L", "M",
     "N", "O", "P", "Q", "R", "S", "T", "U", "V", "W", "X", "Y", "Z",
     "a", "b", "c", "d", "e", "f", "g", "h", "i", "j", "k", "l", "m",
     "n", "o", "p", "q", "r", "s", "t", "u", "v", "w", "x", "y", "z" >>

Chars == {Alphabet[i] : i \in DOMAIN Alphabet}

Ord == [c \in Chars |-> CHOOSE i \in DOMAIN Alphabet : Alphabet[i] = c]

Digits == {"0", "1", "2", "3", "4", "5", "6", "7", "8", "9"}

IsDigit(c) == c \in Digits

DigitVal(c) == Ord[c] - Ord["0"]

IsSpace(c) == c = " "

IsLower(c) == Ord[c] >= Ord["a"]

IsUpper(c) == Ord[c] >= Ord["A"] /\ Ord[c] <= Ord["Z"]

UpperChar(c) == IF IsLower(c) THEN Alphabet[Ord[c] - Ord["a"] + Ord["A"]] ELSE c

LowerChar(c) == IF IsUpper(c) THEN Alphabet[Ord[c] - Ord["A"] + Ord["a"]] ELSE c

\* str.upper()
Upper(s) == [i \in 1..Len(s) |-> UpperChar(s[i])]

\* str.lower()
Lower(s) == [i \in 1..Len(s) |-> LowerChar(s[i])]

RECURSIVE LStrip(_)
LStrip(s) == IF Len(s) > 0 /\ IsSpace(s[1]) THEN LStrip(Tail(s)) ELSE s

RECURSIVE RStrip(_)
RStrip(s) ==
  IF Len(s) > 0 /\ IsSpace(s[Len(s)]) THEN RStrip(SubSeq(s, 1, Len(s) - 1)) ELSE s

\* str.strip()
Strip(s) == RStrip(LStrip(s))

\* str.startswith(p)
StartsWith(s, p) == Len(s) >= Len(p) /\ SubSeq(s, 1, Len(p)) = p

\* the < of Python str: lexicographic by code point
RECURSIVE StrLess(_, _)
StrLess(a, b) ==
  IF Len(b) = 0 THEN FALSE
  ELSE IF Len(a) = 0 THEN TRUE
  ELSE IF a[1] = b[1] THEN StrLess(Tail(a), Tail(b))
  ELSE Ord[a[1]] < Ord[b[1]]

\* a missing text cell (numpy.nan in an object column)
NaN == <<"NaN">>

\* pd.notna on a text cell
NotNa(v) == v # NaN

\* a missing numeric cell, and a present one
NaNum == <<>>

Num(n) == <<n>>

\* astype(str) / str(): a missing cell becomes the text "nan"
AsStr(v) == IF v = NaN THEN <<"n", "a", "n">> ELSE v

\* fillna("")
FillNaEmpty(v) == IF v = NaN THEN <<>> ELSE v

\* int(text): optional surrounding blanks, an optional sign, then digits only
RECURSIVE DigitsValue(_)
DigitsValue(s) ==
  IF Len(s) = 0 THEN 0
  ELSE 10 * DigitsValue(SubSeq(s, 1, Len(s) - 1)) + DigitVal(s[Len(s)])

AllDigits(s) == Len(s) > 0 /\ \A i \in 1..Len(s) : IsDigit(s[i])

PyIntOk(s) ==
  LET t == Strip(s)
      u == IF Len(t) > 0 /\ t[1] \in {"+", "-"} THEN Tail(t) ELSE t
  IN  AllDigits(u)

PyIntValue(s) ==
  LET t == Strip(s)
  IN  IF Len(t) > 0 /\ t[1] = "-" THEN 0 - DigitsValue(Tail(t))
      ELSE IF Len(t) > 0 /\ t[1] = "+" THEN DigitsValue(Tail(t))
      ELSE DigitsValue(t)

-----------------------------------------------------------------------------
(* Data frames: keys, ordering, sort_values, drop_duplicates, merge.       *)

\* the (id, term_code) key of a row
Key(r) == <<r.id, r.term_code>>

\* tuple order of Python on (id, term_code)
KeyLess(a, b) == StrLess(a[1], b[1]) \/ (a[1] = b[1] /\ StrLess(a[2], b[2]))

KeysOf(df) == {Key(df[i]) : i \in DOMAIN df}

\* the distinct keys in ascending order (groupby sort=True, sort_values)
RECURSIVE SortKeys(_)
SortKeys(S) ==
  IF S = {} THEN <<>>
  ELSE LET m == CHOOSE x \in S : \A y \in S : x = y \/ KeyLess(x, y)
       IN  <<m>> \o SortKeys(S \ {m})

\* the rows of df with key k, in df's order
GroupRows(df, k) == SelectSeq(df, LAMBDA r : Key(r) = k)

RECURSIVE ConcatGroups(_, _)
ConcatGroups(df, ks) ==
  IF Len(ks) = 0 THEN <<>>
  ELSE GroupRows(df, ks[1]) \o ConcatGroups(df, Tail(ks))

\* df.sort_values(["id", "term_code"]): ascending by key, rows of equal key
\* keep their order (the multi-column sort is a stable lexsort)
SortValues(df) == ConcatGroups(df, SortKeys(KeysOf(df)))

\* whether row i repeats the key of an earlier row
IsLaterDuplicate(df, i) == \E j \in 1..(i - 1) : Key(df[j]) = Key(df[i])

RECURSIVE KeepFirstFrom(_, _)
KeepFirstFrom(df, i) ==
  IF i > Len(df) THEN <<>>
  ELSE (IF IsLaterDuplicate(df, i) THEN <<>> ELSE <<df[i]>>)
         \o KeepFirstFrom(df, i + 1)

\* df.drop_duplicates(["id", "term_code"]) with keep="first"
DropDuplicates(df) == KeepFirstFrom(df, 1)

\* df.duplicated(subset=["id", "term_code"], keep=False).sum()
DuplicatedCount(df) ==
  Cardinality({i \in DOMAIN df : \E j \in DOMAIN df : j # i /\ Key(df[j]) = Key(df[i])})

\* validate="m:1": the merge keys are unique in the right frame
ValidateManyToOne(rightKeys) ==
  \A i, j \in DOMAIN rightKeys : rightKeys[i] = rightKeys[j] => i = j

\* left.merge(right, how="left"): left order kept; a left row with several
\* matches is repeated once per match, one with none is padded with missing.
\* lkeys and rkeys are the join keys of the rows, right holds the columns the
\* join adds
RECURSIVE Flatten(_)
Flatten(ss) == IF Len(ss) = 0 THEN <<>> ELSE ss[1] \o Flatten(Tail(ss))

LeftMerge(left, lkeys, right, rkeys, missing) ==
  Flatten([n \in 1..Len(left) |->
    LET hits == SelectSeq([j \in 1..Len(right) |-> j], LAMBDA j : rkeys[j] = lkeys[n])
    IN  IF Len(hits) = 0 THEN <<left[n] @@ missing>>
        ELSE [i \in 1..Len(hits) |-> left[n] @@ right[hits[i]]]])

\* the (id, term_code) keys of a frame, row by row
KeyColumn(df) == [i \in 1..Len(df) |-> Key(df[i])]

-----------------------------------------------------------------------------
(* Step 3: normalise the join keys, aggregate grades, merge (lines 67-106) *)

\* df[col].astype(str).str.strip() for col in id, term_code
NormalizeKeys(df) ==
  [i \in 1..Len(df) |->
     [df[i] EXCEPT !.id = Strip(AsStr(@)), !.term_code = Strip(AsStr(@))]]

\* grades.groupby(["id","term_code"]).agg(course_count=("id","size"))
GradesTerm(g) ==
  LET ks == SortKeys(KeysOf(g))
  IN  [i \in 1..Len(ks) |->
         [id |-> ks[i][1], term_code |-> ks[i][2],
          course_count |-> Num(Len(GroupRows(g, ks[i])))]]

\* fall_enrollment.merge(grades_term, on=["id","term_code"], how="left")
EnrollPlusGr(enr, g) ==
  LET gt == GradesTerm(g)
  IN  LeftMerge(enr, KeyColumn(enr),
                [i \in 1..Len(gt) |-> [course_count |-> gt[i].course_count]],
                KeyColumn(gt), [course_count |-> NaNum])

-----------------------------------------------------------------------------
(* Step 4: attach PROGRAM by (college, degree, major) (lines 116-131)      *)

\* astype(str).str.strip().str.upper()
TextKey(v) == Upper(Strip(AsStr(v)))

EnrollWithKeys(df) ==
  [i \in 1..Len(df) |->
     df[i] @@ [college_key |-> TextKey(df[i].college),
               degree_key  |-> TextKey(df[i].degr),
               major_key   |-> TextKey(df[i].majr)]]

ProgramWithKeys(pd) ==
  [i \in 1..Len(pd) |->
     pd[i] @@ [college_key |-> TextKey(pd[i].COLLEGE),
               degree_key  |-> TextKey(pd[i].DEGREE),
               major_key   |-> TextKey(pd[i].MAJOR)]]

ProgramKey(r) == <<r.college_key, r.degree_key, r.major_key>>

ProgramKeyColumn(df) == [i \in 1..Len(df) |-> ProgramKey(df[i])]

\* mutant of ProgramMergeValid: the merge without validate="m:1"
ProgramMergeValid_Unchecked(pdk) == TRUE

\* the validate="m:1" check of the PROGRAM merge (line 130)
ProgramMergeValid(pdk) ==
  ValidateManyToOne(ProgramKeyColumn(pdk))

\* enroll_plus_gr.merge(program_data[keys + PROGRAM], how="left")
DfFinal(epg, pdk) ==
  LeftMerge(epg, ProgramKeyColumn(epg),
            [i \in 1..Len(pdk) |-> [PROGRAM |-> pdk[i].PROGRAM]],
            ProgramKeyColumn(pdk), [PROGRAM |-> NaN])

-----------------------------------------------------------------------------
(* Step 5a: term GPA from letter grades (lines 141-158).  Grade points are *)
(* kept in tenths; a mean is the exact fraction <<num, den>> in lowest     *)
(* terms, in grade points.                                                 *)

GradeKeys ==
  { <<"A">>, <<"A", "-">>, <<"B", "+">>, <<"B">>, <<"B", "-">>,
    <<"C", "+">>, <<"C">>, <<"C", "-">>, <<"D", "+">>, <<"D">>, <<"F">> }

\* GRADE_POINTS, times ten
GRADE_POINTS(g) ==
  CASE g = <<"A">>      -> 40
    [] g = <<"A", "-">> -> 37
    [] g = <<"B", "+">> -> 33
    [] g = <<"B">>      -> 30
    [] g = <<"B", "-">> -> 27
    [] g = <<"C", "+">> -> 23
    [] g = <<"C">>      -> 20
    [] g = <<"C", "-">> -> 17
    [] g = <<"D", "+">> -> 13
    [] g = <<"D">>      -> 10
    [] g = <<"F">>      -> 0

\* final_course_grade.astype(str).str.strip()
CleanGrade(v) == Strip(AsStr(v))

\* whether .map(GRADE_POINTS) gives a value, so that dropna keeps the row
HasGradePoints(v) == CleanGrade(v) \in GradeKeys

\* grades_gpa after the dropna: the mappable rows, each with grade_points
GradesGpa(g) ==
  LET kept == SelectSeq(g, LAMBDA r : HasGradePoints(r.final_course_grade))
  IN  [i \in 1..Len(kept) |->
         [id |-> kept[i].id, term_code |-> kept[i].term_code,
          final_course_grade |-> CleanGrade(kept[i].final_course_grade),
          grade_points |-> GRADE_POINTS(CleanGrade(kept[i].final_course_grade))]]

RECURSIVE Gcd(_, _)
Gcd(a, b) == IF b = 0 THEN a ELSE Gcd(b, a % b)

\* the fraction n/d in lowest terms (d > 0, n >= 0)
Frac(n, d) == LET g == Gcd(n, d) IN <<n \div g, d \div g>>

RECURSIVE SumPoints(_)
SumPoints(rows) ==
  IF Len(rows) = 0 THEN 0 ELSE rows[1].grade_points + SumPoints(Tail(rows))

\* the "mean" aggregate of grade_points over the rows of one group
MeanPoints(rows) == Frac(SumPoints(rows), 10 * Len(rows))

\* grades_gpa.groupby(["id","term_code"]).agg(term_gpa=mean, course_count=size)
TermGpa(g) ==
  LET gg == GradesGpa(g)
      ks == SortKeys(KeysOf(gg))
  IN  [i \in 1..Len(ks) |->
         [id |-> ks[i][1], term_code |-> ks[i][2],
          term_gpa |-> MeanPoints(GroupRows(gg, ks[i])),
          course_count |-> Num(Len(GroupRows(gg, ks[i])))]]

-----------------------------------------------------------------------------
(* Step 5b: the WK3 and EOT snapshots (lines 160-181)                      *)

WK3 == <<"W", "K", "3">>

EOT == <<"E", "O", "T">>

\* df_final[df_final["census"] == tag].sort_values(..).drop_duplicates(..)
CensusRows(df, tag) ==
  DropDuplicates(SortValues(SelectSeq(df, LAMBDA r : r.census = tag)))

\* the column selection and rename of the WK3 side
W3Row(r) ==
  [id |-> r.id, term_code |-> r.term_code,
   majr_w3 |-> r.majr, degr_w3 |-> r.degr, college_w3 |-> r.college,
   PROGRAM_w3 |-> r.PROGRAM, race_desc_w3 |-> r.race_desc,
   ethn_desc_w3 |-> r.ethn_desc, visa_desc_w3 |-> r.visa_desc,
   legal_sex_desc_w3 |-> r.legal_sex_desc, birth_date_w3 |-> r.birth_date]

\* the column selection and rename of the EOT side
EndRow(r) ==
  [id |-> r.id, term_code |-> r.term_code,
   majr_end |-> r.majr, degr_end |-> r.degr, college_end |-> r.college,
   PROGRAM_end |-> r.PROGRAM, race_desc_end |-> r.race_desc,
   ethn_desc_end |-> r.ethn_desc, visa_desc_end |-> r.visa_desc,
   legal_sex_desc_end |-> r.legal_sex_desc, birth_date_end |-> r.birth_date]

W3Frame(df) ==
  LET rows == CensusRows(df, WK3) IN [i \in 1..Len(rows) |-> W3Row(rows[i])]

EndFrame(df) ==
  LET rows == CensusRows(df, EOT) IN [i \in 1..Len(rows) |-> EndRow(rows[i])]

-----------------------------------------------------------------------------
(* Step 5c: outer merge of the snapshots and the flags (lines 184-195)     *)

\* the columns of the absent side of an outer-merged row
MissingW3 ==
  [majr_w3 |-> NaN, degr_w3 |-> NaN, college_w3 |-> NaN, PROGRAM_w3 |-> NaN,
   race_desc_w3 |-> NaN, ethn_desc_w3 |-> NaN, visa_desc_w3 |-> NaN,
   legal_sex_desc_w3 |-> NaN, birth_date_w3 |-> NaN]

MissingEnd ==
  [majr_end |-> NaN, degr_end |-> NaN, college_end |-> NaN, PROGRAM_end |-> NaN,
   race_desc_end |-> NaN, ethn_desc_end |-> NaN, visa_desc_end |-> NaN,
   legal_sex_desc_end |-> NaN, birth_date_end |-> NaN]

\* mutant of OuterMerge: how="left", the keys of the WK3 side only
OuterMerge_Left(l, r) ==
  LET ks == SortKeys(KeysOf(l))
  IN  Flatten([n \in 1..Len(ks) |->
        LET lg == GroupRows(l, ks[n])
            rg == GroupRows(r, ks[n])
        IN  IF Len(rg) = 0 THEN [i \in 1..Len(lg) |-> lg[i] @@ MissingEnd]
            ELSE [x \in 1..(Len(lg) * Len(rg)) |->
                    lg[((x - 1) \div Len(rg)) + 1] @@ rg[((x - 1) % Len(rg)) + 1]]])

\* pd.merge(w3, end, on=["id","term_code"], how="outer"): the union of the
\* keys in ascending order, every pairing of the two sides' rows of a key
OuterMerge(l, r) ==
  LET ks == SortKeys(KeysOf(l) \cup KeysOf(r))
  IN  Flatten([n \in 1..Len(ks) |->
        LET lg == GroupRows(l, ks[n])
            rg == GroupRows(r, ks[n])
        IN  IF Len(rg) = 0 THEN [i \in 1..Len(lg) |-> lg[i] @@ MissingEnd]
            ELSE IF Len(lg) = 0 THEN [j \in 1..Len(rg) |-> rg[j] @@ MissingW3]
            ELSE [x \in 1..(Len(lg) * Len(rg)) |->
                    lg[((x - 1) \div Len(rg)) + 1] @@ rg[((x - 1) % Len(rg)) + 1]]])

\* mutant of AnyNotNa: all(axis=1) instead of any(axis=1)
AnyNotNa_All(a, b, c) == NotNa(a) /\ NotNa(b) /\ NotNa(c)

\* [[majr, degr, college]].notna().any(axis=1)
AnyNotNa(a, b, c) == NotNa(a) \/ NotNa(b) \/ NotNa(c)

\* the undeclared-major prefix of line 193
UN == <<"U", "N">>

\* majr.fillna("").str.upper().str.startswith("UN")
StartsUndeclared(majr) == StartsWith(Upper(FillNaEmpty(majr)), UN)

\* mutant of UndeclaredToDeclared: the persisted conjunct left out
UndeclaredToDeclared_NoPersist(persisted, majr_w3, majr_end) ==
  StartsUndeclared(majr_w3) /\ ~StartsUndeclared(majr_end)

\* lines 191-195
UndeclaredToDeclared(persisted, majr_w3, majr_end) ==
  persisted /\ StartsUndeclared(majr_w3) /\ ~StartsUndeclared(majr_end)

\* lines 186-195 on one merged row
WithFlags(r) ==
  LET e3 == AnyNotNa(r.majr_w3, r.degr_w3, r.college_w3)
      ee == AnyNotNa(r.majr_end, r.degr_end, r.college_end)
  IN  r @@ [enrolled_w3 |-> e3, enrolled_end |-> ee,
            persisted_w3_to_end |-> (e3 /\ ee),
            undeclared_to_declared |->
              UndeclaredToDeclared(e3 /\ ee, r.majr_w3, r.majr_end)]

-----------------------------------------------------------------------------
(* Step 5d: attribute resolution (lines 197-203)                           *)

\* np.where(cond, a, b) on one row
Where(cond, a, b) == IF cond THEN a ELSE b

\* mutant of WithResolved: every column resolved the way gender is, by the
\* presence of the EOT value
WithResolved_ByPresence(r) ==
  r @@ [PROGRAM |-> Where(NotNa(r.PROGRAM_end), r.PROGRAM_end, r.PROGRAM_w3),
        degree  |-> Where(NotNa(r.degr_end), r.degr_end, r.degr_w3),
        major   |-> Where(NotNa(r.majr_end), r.majr_end, r.majr_w3),
        college |-> Where(NotNa(r.college_end), r.college_end, r.college_w3),
        gender  |-> Where(NotNa(r.legal_sex_desc_end),
                          r.legal_sex_desc_end, r.legal_sex_desc_w3)]

WithResolved(r) ==
  r @@ [PROGRAM |-> Where(r.enrolled_end, r.PROGRAM_end, r.PROGRAM_w3),
        degree  |-> Where(r.enrolled_end, r.degr_end, r.degr_w3),
        major   |-> Where(r.enrolled_end, r.majr_end, r.majr_w3),
        college |-> Where(r.enrolled_end, r.college_end, r.college_w3),
        gender  |-> Where(NotNa(r.legal_sex_desc_end),
                          r.legal_sex_desc_end, r.legal_sex_desc_w3)]

-----------------------------------------------------------------------------
(* Step 5f: race/ethnicity, visa -> ethnicity -> race (lines 205-230)      *)

NON_INTL_VISA_TYPES == { <<"P", "R">>, <<"R", "F">>, <<"A", "S">> }

International ==
  <<"I", "n", "t", "e", "r", "n", "a", "t", "i", "o", "n", "a", "l">>

HispanicOrLatino ==
  <<"H", "i", "s", "p", "a", "n", "i", "c", " ", "o", "r", " ",
    "L", "a", "t", "i", "n", "o">>

Unknown == <<"U", "n", "k", "n", "o", "w", "n">>

\* row.get(w3) if pd.notna(row.get(w3)) else row.get(end)
PreferW3(a, b) == IF NotNa(a) THEN a ELSE b

\* str(raw).strip() if raw is non-missing and non-blank, else ""
CleanText(raw) ==
  IF NotNa(raw) /\ Len(Strip(AsStr(raw))) > 0 THEN Strip(AsStr(raw)) ELSE <<>>

\* mutant of _race_ethnicity_du: ethnicity consulted before visa
_race_ethnicity_du_EthnFirst(row) ==
  LET visa_raw == PreferW3(row.visa_desc_w3, row.visa_desc_end)
      ethn_raw == PreferW3(row.ethn_desc_w3, row.ethn_desc_end)
      race_raw == PreferW3(row.race_desc_w3, row.race_desc_end)
      visa == Upper(CleanText(visa_raw))
      ethn == CleanText(ethn_raw)
      race == CleanText(race_raw)
  IN  IF Lower(ethn) = Lower(HispanicOrLatino) THEN HispanicOrLatino
      ELSE IF Len(visa) > 0 /\ visa \notin NON_INTL_VISA_TYPES THEN International
      ELSE IF Len(race) > 0 THEN race
      ELSE Unknown

_race_ethnicity_du(row) ==
  LET visa_raw == PreferW3(row.visa_desc_w3, row.visa_desc_end)
      ethn_raw == PreferW3(row.ethn_desc_w3, row.ethn_desc_end)
      race_raw == PreferW3(row.race_desc_w3, row.race_desc_end)
      visa == Upper(CleanText(visa_raw))
      ethn == CleanText(ethn_raw)
      race == CleanText(race_raw)
  IN  IF Len(visa) > 0 /\ visa \notin NON_INTL_VISA_TYPES THEN International
      ELSE IF Lower(ethn) = Lower(HispanicOrLatino) THEN HispanicOrLatino
      ELSE IF Len(race) > 0 THEN race
      ELSE Unknown

-----------------------------------------------------------------------------
(* Step 5e: age at the term's as-of date (lines 233-264).  A date is       *)
(* <<year, month, day>>; NaT is <<>>.                                      *)

NaT == <<>>

IsLeap(y) == (y % 4 = 0 /\ y % 100 # 0) \/ y % 400 = 0

DaysIn(y, m) ==
  IF m = 2 THEN (IF IsLeap(y) THEN 29 ELSE 28)
  ELSE IF m \in {4, 6, 9, 11} THEN 30 ELSE 31

\* pd.to_datetime(dob, errors="coerce") on one cell, for ISO text
\* YYYY-MM-DD: a calendar date inside the nanosecond range parses, anything
\* else (missing, other text, an impossible day) is coerced to NaT
ToDatetime(dob) ==
  IF /\ NotNa(dob) /\ Len(dob) = 10
     /\ dob[5] = "-" /\ dob[8] = "-"
     /\ AllDigits(SubSeq(dob, 1, 4))
     /\ AllDigits(SubSeq(dob, 6, 7))
     /\ AllDigits(SubSeq(dob, 9, 10))
  THEN LET y == DigitsValue(SubSeq(dob, 1, 4))
           m == DigitsValue(SubSeq(dob, 6, 7))
           d == DigitsValue(SubSeq(dob, 9, 10))
       IN  IF /\ y >= 1678 /\ y <= 2261
              /\ m >= 1 /\ m <= 12
              /\ d >= 1 /\ d <= DaysIn(y, m)
           THEN <<y, m, d>> ELSE NaT
  ELSE NaT

\* _TERM_ASOF_MONTH.get(suff, 10)
_TERM_ASOF_MONTH(suff) ==
  CASE suff = 10 -> 10
    [] suff = 70 -> 10
    [] suff = 20 -> 3
    [] suff = 30 -> 7
    [] suff = 40 -> 7
    [] suff = 50 -> 7
    [] OTHER -> 10

\* _asof_from_term: kind "date" with the date, kind "NaT", or kind "raise"
\* when the statement outside the try block raises: pd.Timestamp(year=0, ..)
\* is a ValueError (years 0001-9999 construct a date)
_asof_from_term(term_code) ==
  LET s == AsStr(term_code)
  IN  IF Len(s) >= 6 /\ AllDigits(SubSeq(s, 1, 4))
      THEN LET year == DigitsValue(SubSeq(s, 1, 4))
               last2 == SubSeq(s, Len(s) - 1, Len(s))
           IN  IF ~PyIntOk(last2) THEN [kind |-> "NaT", date |-> NaT]
               ELSE IF year < 1 THEN [kind |-> "raise", date |-> NaT]
               ELSE [kind |-> "date",
                     date |-> <<year, _TERM_ASOF_MONTH(PyIntValue(last2)), 1>>]
      ELSE [kind |-> "NaT", date |-> NaT]

\* mutant of MonthDayLess: <= in place of <
MonthDayLess_Leq(a, b) == a[2] < b[2] \/ (a[2] = b[2] /\ a[3] <= b[3])

\* (asof.month, asof.day) < (dt.month, dt.day)
MonthDayLess(a, b) == a[2] < b[2] \/ (a[2] = b[2] /\ a[3] < b[3])

\* _age_years: kind "int" with the age in v, kind "nan", or kind "raise"
_age_years(dob_w3, dob_end, term_code) ==
  LET dob == PreferW3(dob_w3, dob_end)
      dt == ToDatetime(dob)
      asof == _asof_from_term(term_code)
  IN  IF asof.kind = "raise" THEN [kind |-> "raise", v |-> 0]
      ELSE IF dt = NaT \/ asof.kind = "NaT" THEN [kind |-> "nan", v |-> 0]
      ELSE LET years == asof.date[1] - dt[1]
           IN  [kind |-> "int",
                v |-> IF MonthDayLess(asof.date, dt) THEN years - 1 ELSE years]

AgeOfRow(r) == _age_years(r.birth_date_w3, r.birth_date_end, r.term_code)

AgeCell(a) == IF a.kind = "int" THEN Num(a.v) ELSE NaNum

-----------------------------------------------------------------------------
(* Step 5f (second): attach term GPA (line 268)                            *)

\* mutant of MissingGpa: a student-term without grades gets zeros
MissingGpa_Zero == [term_gpa |-> <<0, 1>>, course_count |-> Num(0)]

\* the columns of a student-term that has no row in term_gpa
MissingGpa == [term_gpa |-> NaNum, course_count |-> NaNum]

GpaMergeValid(tg) == ValidateManyToOne(KeyColumn(tg))

AttachGpa(st, tg) ==
  LeftMerge(st, KeyColumn(st),
            [i \in 1..Len(tg) |->
               [term_gpa |-> tg[i].term_gpa, course_count |-> tg[i].course_count]],
            KeyColumn(tg), MissingGpa)

-----------------------------------------------------------------------------
(* Step 6: projection, rounding, rename, duplicate check (lines 283-305)   *)

\* term_gpa.round(2), in hundredths: the nearest hundredth; at an exact tie
\* the binary double decides, so either neighbour is possible
Round2(q) ==
  IF q = NaNum THEN {NaNum}
  ELSE LET f == (q[1] * 100) \div q[2]
           rem == (q[1] * 100) % q[2]
       IN  IF 2 * rem < q[2] THEN {Num(f)}
           ELSE IF 2 * rem > q[2] THEN {Num(f + 1)}
           ELSE {Num(f), Num(f + 1)}

StudentLevelRow(r, gpa) ==
  [id |-> r.id, term_code |-> r.term_code,
   gender |-> r.gender, race_ethnicity |-> r.race_ethnicity, age |-> r.age,
   college |-> r.college, degree |-> r.degree, major |-> r.major,
   program |-> r.PROGRAM,
   term_gpa |-> gpa, course_count |-> r.course_count,
   persisted_w3_to_end |-> r.persisted_w3_to_end,
   undeclared_to_declared |-> r.undeclared_to_declared]

\* the projected frames the rounding can produce
Projected(st) ==
  { [i \in 1..Len(st) |-> StudentLevelRow(st[i], g[i])] :
      g \in { h \in [1..Len(st) -> UNION {Round2(st[i].term_gpa) : i \in 1..Len(st)}] :
                \A i \in 1..Len(st) : h[i] \in Round2(st[i].term_gpa) } }

-----------------------------------------------------------------------------
(* The pipeline: one action per step of the script.                        *)

NotWritten == [written |-> FALSE, rows |-> <<>>]

\* the three input paths of lines 40-42
InputFiles == {"fall_enrollment.csv", "grades.csv", "program_data.csv"}

\* the analysis script has not started and its folder holds none of its files
ReportIdle == apc = "read" /\ aerror = "none" /\ disk = {} /\ created = {}

\* the state before the script runs: the three input files hold E, G and P,
\* and the set of input paths that exist is one of X
InitFrom(E, G, P, X) ==
  /\ file_enrollment \in E
  /\ file_grades \in G
  /\ file_program \in P
  /\ present \in X
  /\ log = {}
  /\ pc = "check"
  /\ error = "none"
  /\ fall_enrollment = <<>> /\ grades = <<>> /\ program_data = <<>>
  /\ enroll_plus_gr = <<>> /\ df_final = <<>> /\ term_gpa = <<>>
  /\ w3 = <<>> /\ end = <<>> /\ student_term = <<>> /\ student_level = <<>>
  /\ dup_count = 0
  /\ csv = NotWritten
  /\ ReportIdle

\* the state before the script runs with all three input files in place
InitWith(E, G, P) == InitFrom(E, G, P, {InputFiles})

\* Presence check (lines 45-49): "[ERROR] File not found" is printed for each
\* path that does not exist, "[OK] Found" for the others; nothing else happens
PresenceCheck ==
  /\ pc = "check"
  /\ log' = {f \in InputFiles : f \notin present}
  /\ pc' = "load"
  /\ UNCHANGED <<error, present, file_enrollment, file_grades, file_program,
                 fall_enrollment, grades, program_data,
                 enroll_plus_gr, df_final, term_gpa, w3, end, student_term,
                 student_level, dup_count, csv, apc, aerror, disk, created>>

\* read_csv of every path succeeds
ReadCsvOk_Always(f) == TRUE

\* pd.read_csv(path) returns a frame when the path exists and raises
\* FileNotFoundError when it does not
ReadCsvOk(f) == f \in present

\* Step 2 (lines 52-54): pd.read_csv of the three files, in this order; the
\* first read that raises ends the run, the frames read before it are bound
Load ==
  /\ pc = "load"
  /\ UNCHANGED <<present, log, apc, aerror, disk, created>>
  /\ fall_enrollment' =
       IF ReadCsvOk("fall_enrollment.csv") THEN file_enrollment ELSE fall_enrollment
  /\ grades' =
       IF ReadCsvOk("fall_enrollment.csv") /\ ReadCsvOk("grades.csv")
       THEN file_grades ELSE grades
  /\ program_data' =
       IF \A f \in InputFiles : ReadCsvOk(f) THEN file_program ELSE program_data
  /\ IF \A f \in InputFiles : ReadCsvOk(f)
     THEN pc' = "keys" /\ error' = error
     ELSE pc' = "aborted" /\ error' = "FileNotFoundError"
  /\ UNCHANGED <<file_enrollment, file_grades, file_program,
                 enroll_plus_gr, df_final, term_gpa, w3, end, student_term,
                 student_level, dup_count, csv>>

\* Step 3 (lines 67-106): keys normalised in place, grades aggregated and
\* left-joined; grades_term has one row per key, so validate="m:1" passes
Step3 ==
  /\ pc = "keys"
  /\ UNCHANGED <<present, log, apc, aerror, disk, created>>
  /\ fall_enrollment' = NormalizeKeys(fall_enrollment)
  /\ grades' = NormalizeKeys(grades)
  /\ enroll_plus_gr' = EnrollPlusGr(fall_enrollment', grades')
  /\ pc' = "program"
  /\ UNCHANGED <<error, file_enrollment, file_grades, file_program,
                 program_data, df_final, term_gpa, w3, end, student_term,
                 student_level, dup_count, csv>>

\* Step 4 (lines 116-131): key columns added in place on both sides, then
\* the validated left join; a repeated catalog key raises MergeError
Step4 ==
  /\ pc = "program"
  /\ UNCHANGED <<present, log, apc, aerror, disk, created>>
  /\ enroll_plus_gr' = EnrollWithKeys(enroll_plus_gr)
  /\ program_data' = ProgramWithKeys(program_data)
  /\ IF ProgramMergeValid(program_data')
     THEN /\ df_final' = DfFinal(enroll_plus_gr', program_data')
          /\ pc' = "gpa"
          /\ error' = error
     ELSE /\ df_final' = df_final
          /\ pc' = "aborted"
          /\ error' = "MergeError"
  /\ UNCHANGED <<file_enrollment, file_grades, file_program,
                 fall_enrollment, grades, term_gpa, w3, end, student_term,
                 student_level, dup_count, csv>>

\* Step 5a (lines 141-158)
Step5a ==
  /\ pc = "gpa"
  /\ UNCHANGED <<present, log, apc, aerror, disk, created>>
  /\ term_gpa' = TermGpa(grades)
  /\ pc' = "split"
  /\ UNCHANGED <<error, file_enrollment, file_grades, file_program,
                 fall_enrollment, grades, program_data, enroll_plus_gr,
                 df_final, w3, end, student_term, student_level, dup_count, csv>>

\* Step 5b (lines 160-181)
Step5b ==
  /\ pc = "split"
  /\ UNCHANGED <<present, log, apc, aerror, disk, created>>
  /\ w3' = W3Frame(df_final)
  /\ end' = EndFrame(df_final)
  /\ pc' = "merge"
  /\ UNCHANGED <<error, file_enrollment, file_grades, file_program,
                 fall_enrollment, grades, program_data, enroll_plus_gr,
                 df_final, term_gpa, student_term, student_level, dup_count, csv>>

\* Step 5c (lines 184-195)
Step5c ==
  /\ pc = "merge"
  /\ UNCHANGED <<present, log, apc, aerror, disk, created>>
  /\ student_term' =
       LET m == OuterMerge(w3, end) IN [i \in 1..Len(m) |-> WithFlags(m[i])]
  /\ pc' = "resolve"
  /\ UNCHANGED <<error, file_enrollment, file_grades, file_program,
                 fall_enrollment, grades, program_data, enroll_plus_gr,
                 df_final, term_gpa, w3, end, student_level, dup_count, csv>>

\* Step 5d (lines 197-203)
Step5d ==
  /\ pc = "resolve"
  /\ UNCHANGED <<present, log, apc, aerror, disk, created>>
  /\ student_term' = [i \in 1..Len(student_term) |-> WithResolved(student_term[i])]
  /\ pc' = "race"
  /\ UNCHANGED <<error, file_enrollment, file_grades, file_program,
                 fall_enrollment, grades, program_data, enroll_plus_gr,
                 df_final, term_gpa, w3, end, student_level, dup_count, csv>>

\* line 230: student_term.apply(_race_ethnicity_du, axis=1)
Step5Race ==
  /\ pc = "race"
  /\ UNCHANGED <<present, log, apc, aerror, disk, created>>
  /\ student_term' =
       [i \in 1..Len(student_term) |->
          student_term[i] @@ [race_ethnicity |-> _race_ethnicity_du(student_term[i])]]
  /\ pc' = "age"
  /\ UNCHANGED <<error, file_enrollment, file_grades, file_program,
                 fall_enrollment, grades, program_data, enroll_plus_gr,
                 df_final, term_gpa, w3, end, student_level, dup_count, csv>>

\* lines 261-264: student_term.apply(_age_years ..); an exception in any row
\* ends the script
Step5Age ==
  /\ pc = "age"
  /\ UNCHANGED <<present, log, apc, aerror, disk, created>>
  /\ IF \E i \in 1..Len(student_term) : AgeOfRow(student_term[i]).kind = "raise"
     THEN /\ student_term' = student_term
          /\ pc' = "aborted"
          /\ error' = "ValueError"
     ELSE /\ student_term' =
               [i \in 1..Len(student_term) |->
                  student_term[i] @@ [age |-> AgeCell(AgeOfRow(student_term[i]))]]
          /\ pc' = "attach"
          /\ error' = error
  /\ UNCHANGED <<file_enrollment, file_grades, file_program,
                 fall_enrollment, grades, program_data, enroll_plus_gr,
                 df_final, term_gpa, w3, end, student_level, dup_count, csv>>

\* line 268: the validated left join with term_gpa
Step5Attach ==
  /\ pc = "attach"
  /\ UNCHANGED <<present, log, apc, aerror, disk, created>>
  /\ IF GpaMergeValid(term_gpa)
     THEN /\ student_term' = AttachGpa(student_term, term_gpa)
          /\ pc' = "collapse"
          /\ error' = error
     ELSE /\ student_term' = student_term
          /\ pc' = "aborted"
          /\ error' = "MergeError"
  /\ UNCHANGED <<file_enrollment, file_grades, file_program,
                 fall_enrollment, grades, program_data, enroll_plus_gr,
                 df_final, term_gpa, w3, end, student_level, dup_count, csv>>

\* Step 6 (lines 283-305): the duplicate check prints the count of rows
\* whose key repeats and keeps the first of each key
Step6 ==
  /\ pc = "collapse"
  /\ UNCHANGED <<present, log, apc, aerror, disk, created>>
  /\ \E proj \in Projected(student_term) :
       IF DuplicatedCount(proj) > 0
       THEN /\ dup_count' = DuplicatedCount(proj)
            /\ student_level' = DropDuplicates(proj)
       ELSE /\ dup_count' = dup_count
            /\ student_level' = proj
  /\ pc' = "export"
  /\ UNCHANGED <<error, file_enrollment, file_grades, file_program,
                 fall_enrollment, grades, program_data, enroll_plus_gr,
                 df_final, term_gpa, w3, end, student_term, csv>>

\* Step 7 (lines 314-319): student_level.to_csv
Step7 ==
  /\ pc = "export"
  /\ UNCHANGED <<present, log, apc, aerror, disk, created>>
  /\ csv' = [written |-> TRUE, rows |-> student_level]
  /\ pc' = "done"
  /\ UNCHANGED <<error, file_enrollment, file_grades, file_program,
                 fall_enrollment, grades, program_data, enroll_plus_gr,
                 df_final, term_gpa, w3, end, student_term, student_level,
                 dup_count>>

Next ==
  \/ PresenceCheck
  \/ Load \/ Step3 \/ Step4 \/ Step5a \/ Step5b \/ Step5c \/ Step5d
  \/ Step5Race \/ Step5Age \/ Step5Attach \/ Step6 \/ Step7

-----------------------------------------------------------------------------
(* Input files.                                                            *)

\* all sequences over S of length at most n
SeqsUpTo(S, n) == UNION {[1..k -> S] : k \in 0..n}

T202210 == <<"2", "0", "2", "2", "1", "0">>

B20000615 == <<"2", "0", "0", "0", "-", "0", "6", "-", "1", "5">>

UNDECIDED == <<"U", "N", "D", "E", "C", "I", "D", "E", "D">>

BIOLOGY == <<"B", "I", "O", "L", "O", "G", "Y">>

ARTS == <<"A", "R", "T", "S">>

BA == <<"B", "A">>

White == <<"W", "h", "i", "t", "e">>

\* major, degree, college and legal sex as one snapshot may record them
Profiles ==
  { [majr |-> UNDECIDED, degr |-> BA, college |-> ARTS, legal_sex_desc |-> <<"F">>],
    [majr |-> BIOLOGY, degr |-> BA, college |-> ARTS, legal_sex_desc |-> NaN],
    [majr |-> NaN, degr |-> NaN, college |-> NaN, legal_sex_desc |-> <<"M">>],
    [majr |-> NaN, degr |-> BA, college |-> ARTS, legal_sex_desc |-> NaN],
    [majr |-> <<"u", "n", "d">>, degr |-> NaN, college |-> NaN, legal_sex_desc |-> NaN] }

PlainDemo == [race_desc |-> White, ethn_desc |-> NaN, visa_desc |-> NaN]

EnrollRow(id, term, census, birth, profile, demo) ==
  [id |-> id, term_code |-> term, census |-> census, birth_date |-> birth]
    @@ profile @@ demo

CensusTags == {WK3, EOT, <<"w", "k", "3">>, NaN}

\* enrollment rows for the record-linkage steps: every tag and profile for
\* student 1, and a few rows of other ids (one with a trailing blank)
EnrollPool ==
  { EnrollRow(<<"1">>, T202210, c, B20000615, p, PlainDemo) :
      c \in CensusTags, p \in Profiles }
  \cup
  { EnrollRow(i, T202210, c, B20000615,
              [majr |-> BIOLOGY, degr |-> BA, college |-> ARTS, legal_sex_desc |-> NaN],
              PlainDemo) :
      i \in {<<"1", " ">>, <<"2">>}, c \in {WK3, EOT} }

GradeRow(id, term, g) == [id |-> id, term_code |-> term, final_course_grade |-> g]

\* grades of student 1 and of a student 9 who has no enrollment row
SampleGrades ==
  << GradeRow(<<"1">>, T202210, <<"A">>),
     GradeRow(<<"1">>, T202210, <<"B", "+">>),
     GradeRow(<<"9">>, T202210, <<"B">>) >>

ProgramRow(c, d, m, p) == [COLLEGE |-> c, DEGREE |-> d, MAJOR |-> m, PROGRAM |-> p]

GoodCatalog ==
  << ProgramRow(<<"a", "r", "t", "s", " ">>, <<"b", "a">>, <<"B", "i", "o", "l", "o", "g", "y">>,
                <<"L", "I", "F", "E">>),
     ProgramRow(ARTS, BA, UNDECIDED, <<"G", "E", "N">>) >>

\* GoodCatalog and a third entry whose normalised key repeats the first's
DupCatalog == GoodCatalog \o << ProgramRow(ARTS, BA, BIOLOGY, <<"B", "I", "O">>) >>

MaxEnroll == 2

Init == InitWith(SeqsUpTo(EnrollPool, MaxEnroll), {SampleGrades}, {GoodCatalog, DupCatalog})

Spec == Init /\ [][Next]_vars

-----------------------------------------------------------------------------
(* Properties.  They are stated against the input files: the snapshot of a *)
(* student-term is the first enrollment row of that key carrying the tag.  *)

\* the (id, term_code) pair of an input row, as trimmed text
PairOf(r) == <<Strip(AsStr(r.id)), Strip(AsStr(r.term_code))>>

TaggedRows(k, tag) ==
  {i \in DOMAIN file_enrollment :
     file_enrollment[i].census = tag /\ PairOf(file_enrollment[i]) = k}

HasSnapshot(k, tag) == TaggedRows(k, tag) # {}

SnapshotRow(k, tag) ==
  file_enrollment[CHOOSE i \in TaggedRows(k, tag) : \A j \in TaggedRows(k, tag) : i <= j]

\* a column of the snapshot, missing when the student-term has no such snapshot
SnapshotValue(k, tag, col) ==
  IF HasSnapshot(k, tag) THEN SnapshotRow(k, tag)[col] ELSE NaN

\* at least one of major, degree, college is recorded in the snapshot
SomeProgramField(k, tag) ==
  \E col \in {"majr", "degr", "college"} : SnapshotValue(k, tag, col) # NaN

\* C1: in every merged student-term row, enrolled_w3 (enrolled_end) is true
\* iff the WK3 (EOT) snapshot records at least one of major, degree, college,
\* and persisted_w3_to_end is true iff both flags are true.
C1_EnrollmentFlags ==
  \A i \in DOMAIN student_term :
    LET r == student_term[i]
        k == Key(r)
    IN  /\ r.enrolled_w3 = SomeProgramField(k, WK3)
        /\ r.enrolled_end = SomeProgramField(k, EOT)
        /\ r.persisted_w3_to_end = (r.enrolled_w3 /\ r.enrolled_end)

\* a student-term whose EOT snapshot exists but records none of the three
\* fields, beside a WK3 snapshot that records only some of them
C1_Witness ==
  \E i \in DOMAIN student_term :
    LET r == student_term[i]
    IN  /\ HasSnapshot(Key(r), EOT) /\ HasSnapshot(Key(r), WK3)
        /\ r.enrolled_w3 /\ ~r.enrolled_end /\ ~r.persisted_w3_to_end
        /\ r.degr_w3 = NaN

\* the case-folded major, empty when missing, starts with "UN"
FoldedStartsUN(majr) ==
  LET t == IF majr = NaN THEN <<>> ELSE Upper(majr)
  IN  Len(t) >= 2 /\ t[1] = "U" /\ t[2] = "N"

\* C2: undeclared_to_declared is true iff the row persisted and the folded
\* WK3 major starts with "UN" and the folded EOT major does not; it is false
\* on every row that did not persist.
C2_UndeclaredToDeclared ==
  \A i \in DOMAIN student_term :
    LET r == student_term[i]
        k == Key(r)
    IN  /\ r.undeclared_to_declared =
             ( /\ r.persisted_w3_to_end
               /\ FoldedStartsUN(SnapshotValue(k, WK3, "majr"))
               /\ ~FoldedStartsUN(SnapshotValue(k, EOT, "majr")) )
        /\ ~r.persisted_w3_to_end => ~r.undeclared_to_declared

\* a row that did not persist although its WK3 major is undeclared and its
\* EOT snapshot exists with no major
C2_Witness ==
  \E i \in DOMAIN student_term :
    LET r == student_term[i]
    IN  /\ HasSnapshot(Key(r), EOT)
        /\ r.majr_w3 = UNDECIDED /\ r.majr_end = NaN
        /\ ~r.persisted_w3_to_end /\ ~r.undeclared_to_declared

\* the student-terms that have an enrollment row tagged WK3 or EOT
TaggedPairs ==
  {PairOf(file_enrollment[i]) :
     i \in {j \in DOMAIN file_enrollment : file_enrollment[j].census \in {WK3, EOT}}}

ExportedPairs == {Key(csv.rows[i]) : i \in DOMAIN csv.rows}

W3Columns ==
  {"majr_w3", "degr_w3", "college_w3", "PROGRAM_w3", "race_desc_w3",
   "ethn_desc_w3", "visa_desc_w3", "legal_sex_desc_w3", "birth_date_w3"}

EndColumns ==
  {"majr_end", "degr_end", "college_end", "PROGRAM_end", "race_desc_end",
   "ethn_desc_end", "visa_desc_end", "legal_sex_desc_end", "birth_date_end"}

\* C3: the exported table has exactly one row for every (id, term_code) pair
\* with an enrollment row tagged WK3 or EOT and no row for any other pair; a
\* pair present in one snapshot only has every attribute of the other
\* snapshot missing.
C3_OneRowPerTaggedPair ==
  /\ csv.written =>
       /\ ExportedPairs = TaggedPairs
       /\ Len(csv.rows) = Cardinality(TaggedPairs)
  /\ \A i \in DOMAIN student_term :
       LET r == student_term[i]
       IN  /\ Key(r) \in TaggedPairs
           /\ ~HasSnapshot(Key(r), WK3) => \A c \in W3Columns : r[c] = NaN
           /\ ~HasSnapshot(Key(r), EOT) => \A c \in EndColumns : r[c] = NaN

\* an export where a row with another tag and a grades-only pair produced
\* nothing and a pair seen at EOT only produced its row
C3_Witness ==
  /\ csv.written
  /\ \E i \in DOMAIN file_enrollment :
       /\ file_enrollment[i].census \notin {WK3, EOT}
       /\ PairOf(file_enrollment[i]) \notin ExportedPairs
  /\ \E i \in DOMAIN file_grades : PairOf(file_grades[i]) \notin ExportedPairs
  /\ \E i \in DOMAIN csv.rows :
       HasSnapshot(Key(csv.rows[i]), EOT) /\ ~HasSnapshot(Key(csv.rows[i]), WK3)

RepeatedInput(i, j) ==
  /\ i < j
  /\ PairOf(file_enrollment[i]) = PairOf(file_enrollment[j])
  /\ file_enrollment[i].census = file_enrollment[j].census
  /\ file_enrollment[i].census \in {WK3, EOT}
  /\ file_enrollment[i] # file_enrollment[j]

\* C8: of two input rows with identical (id, term_code) and differing other
\* fields exactly one, the first, survives in the output, and a non-zero
\* duplicates-dropped diagnostic giving the number of rows dropped is recorded.
C8_DuplicatesReported ==
  csv.written =>
    \A i, j \in DOMAIN file_enrollment :
      RepeatedInput(i, j) =>
        /\ Cardinality({n \in DOMAIN csv.rows :
                          Key(csv.rows[n]) = PairOf(file_enrollment[i])}) = 1
        /\ dup_count > 0
        /\ dup_count = Len(file_enrollment) - Len(csv.rows)

-----------------------------------------------------------------------------
(* The program join under a varying catalog.                               *)

\* catalog entries: two that share a normalised key, one other, and one
\* with no key field recorded
CatalogPool ==
  { ProgramRow(<<"a", "r", "t", "s", " ">>, <<"b", "a">>,
               <<"B", "i", "o", "l", "o", "g", "y">>, <<"L", "I", "F", "E">>),
    ProgramRow(ARTS, BA, BIOLOGY, <<"B", "I", "O">>),
    ProgramRow(ARTS, BA, UNDECIDED, <<"G", "E", "N">>),
    ProgramRow(NaN, NaN, NaN, <<"N", "O", "N", "E">>) }

JoinEnrollment ==
  << EnrollRow(<<"1">>, T202210, WK3, B20000615,
               [majr |-> UNDECIDED, degr |-> BA, college |-> ARTS, legal_sex_desc |-> <<"F">>],
               PlainDemo),
     EnrollRow(<<"1">>, T202210, EOT, B20000615,
               [majr |-> BIOLOGY, degr |-> BA, college |-> ARTS, legal_sex_desc |-> NaN],
               PlainDemo),
     EnrollRow(<<"2">>, T202210, WK3, B20000615,
               [majr |-> NaN, degr |-> NaN, college |-> NaN, legal_sex_desc |-> <<"M">>],
               PlainDemo) >>

MaxCatalog == 2

InitJoin ==
  InitWith({JoinEnrollment, SubSeq(JoinEnrollment, 1, 1)}, {SampleGrades},
           SeqsUpTo(CatalogPool, MaxCatalog))

SpecJoin == InitJoin /\ [][Next]_vars

\* the trimmed, upper-cased (college, degree, major) of a catalog entry and
\* of an enrollment row
CatalogKey(e) ==
  <<Upper(Strip(AsStr(e.COLLEGE))), Upper(Strip(AsStr(e.DEGREE))),
    Upper(Strip(AsStr(e.MAJOR)))>>

EnrollmentKey(r) ==
  <<Upper(Strip(AsStr(r.college))), Upper(Strip(AsStr(r.degr))),
    Upper(Strip(AsStr(r.majr)))>>

CatalogRepeatsKey ==
  \E i, j \in DOMAIN file_program :
    i # j /\ CatalogKey(file_program[i]) = CatalogKey(file_program[j])

\* the program join has run and did not raise
ProgramJoined ==
  /\ pc \notin {"check", "load", "keys", "program"}
  /\ ~(pc = "aborted" /\ error \in {"MergeError", "FileNotFoundError"})

\* C9: the join to the catalog is many-to-one: every enrollment row matches
\* at most one catalog entry on the normalised key and the join keeps the
\* number of enrollment rows; a catalog with two entries of one normalised
\* key aborts the run with a join-cardinality error and writes no CSV.
C9_ManyToOneJoin ==
  /\ ProgramJoined =>
       /\ Len(df_final) = Len(file_enrollment)
       /\ \A i \in DOMAIN file_enrollment :
            Cardinality({j \in DOMAIN file_program :
                           CatalogKey(file_program[j]) = EnrollmentKey(file_enrollment[i])}) <= 1
  /\ CatalogRepeatsKey =>
       /\ ~csv.written
       /\ pc \in {"check", "load", "keys", "program", "aborted"}
       /\ pc = "aborted" => error = "MergeError"

\* a run aborted by a catalog whose two entries differ as text and agree
\* after trimming and upper-casing
C9_Witness ==
  /\ pc = "aborted" /\ error = "MergeError" /\ ~csv.written
  /\ CatalogRepeatsKey
  /\ \A i, j \in DOMAIN file_program :
       i # j => <<file_program[i].COLLEGE, file_program[i].MAJOR>>
                  # <<file_program[j].COLLEGE, file_program[j].MAJOR>>

-----------------------------------------------------------------------------
(* Term GPA under varying grade rows.                                      *)

\* letter grades as the file may hold them: mapped letters, a withdrawal,
\* a letter followed by a blank, a lower-case letter, and no grade
GradeTexts == { <<"A">>, <<"A", "-">>, <<"F">>, <<"W">>, <<"A", " ">>, <<"a">>, NaN }

\* every text for student 1, three of them for student 2 (id written with a
\* leading blank)
GradePool ==
  { GradeRow(<<"1">>, T202210, g) : g \in GradeTexts }
  \cup { GradeRow(<<" ", "2">>, T202210, g) : g \in {<<"A">>, <<"F">>, <<"W">>} }

MaxGrades == 3

InitGpa == InitWith({JoinEnrollment}, SeqsUpTo(GradePool, MaxGrades), {GoodCatalog})

SpecGpa == InitGpa /\ [][Next]_vars

\* the grade rows of student-term k whose letter, as written in the file, is
\* a key of the grade-points map
RowsWithKeyGrade(k) ==
  {i \in DOMAIN file_grades :
     PairOf(file_grades[i]) = k /\ file_grades[i].final_course_grade \in GradeKeys}

\* the same with the letter trimmed of surrounding blanks first
RowsWithTrimmedKeyGrade(k) ==
  {i \in DOMAIN file_grades :
     /\ PairOf(file_grades[i]) = k
     /\ file_grades[i].final_course_grade # NaN
     /\ Strip(file_grades[i].final_course_grade) \in GradeKeys}

\* ten times the sum of the grade points of the rows in S
RECURSIVE TenthsOf(_)
TenthsOf(S) ==
  IF S = {} THEN 0
  ELSE LET i == CHOOSE x \in S : TRUE
       IN  GRADE_POINTS(Strip(file_grades[i].final_course_grade)) + TenthsOf(S \ {i})

\* row r carries the mean and the count of the grade rows S, or nothing
\* when S is empty
GpaIsMeanOf(r, S) ==
  IF S = {}
  THEN r.term_gpa = NaNum /\ r.course_count = NaNum
  ELSE /\ r.course_count = Num(Cardinality(S))
       /\ r.term_gpa # NaNum
       /\ r.term_gpa[1] * 10 * Cardinality(S) = TenthsOf(S) * r.term_gpa[2]

\* the exported row is missing both values exactly when S is empty, and has
\* a GPA of zero when S holds F grades only
ExportedGpaOf(x, S) ==
  /\ (S = {}) = (x.term_gpa = NaNum)
  /\ (S = {}) = (x.course_count = NaNum)
  /\ (S # {} /\ TenthsOf(S) = 0) => x.term_gpa = Num(0)

\* C5 as stated: a grade row contributes to term_gpa iff its letter grade is a
\* key of the grade-points map; term_gpa is the mean of the contributing
\* rows' points and course_count their number; with no contributing row the
\* output row has term_gpa and course_count missing, not zero.
C5_Original ==
  /\ \A i \in DOMAIN student_term :
       "term_gpa" \in DOMAIN student_term[i] =>
         GpaIsMeanOf(student_term[i], RowsWithKeyGrade(Key(student_term[i])))
  /\ csv.written =>
       \A i \in DOMAIN csv.rows :
         ExportedGpaOf(csv.rows[i], RowsWithKeyGrade(Key(csv.rows[i])))

\* C5 amended: a grade row contributes iff its letter grade, trimmed of
\* surrounding blanks, is a key of the grade-points map; the rest as stated.
C5_TermGpa ==
  /\ \A i \in DOMAIN student_term :
       "term_gpa" \in DOMAIN student_term[i] =>
         GpaIsMeanOf(student_term[i], RowsWithTrimmedKeyGrade(Key(student_term[i])))
  /\ csv.written =>
       \A i \in DOMAIN csv.rows :
         ExportedGpaOf(csv.rows[i], RowsWithTrimmedKeyGrade(Key(csv.rows[i])))

\* an export with a student-term whose grades are all unmapped (missing
\* GPA) beside one where a letter followed by a blank entered a mean of two
\* rows
C5_Witness ==
  /\ csv.written
  /\ \E i \in DOMAIN csv.rows :
       /\ csv.rows[i].term_gpa = NaNum
       /\ \E g \in DOMAIN file_grades : PairOf(file_grades[g]) = Key(csv.rows[i])
  /\ \E i \in DOMAIN csv.rows :
       /\ csv.rows[i].course_count = Num(2)
       /\ \E g \in RowsWithTrimmedKeyGrade(Key(csv.rows[i])) :
            file_grades[g].final_course_grade \notin GradeKeys

-----------------------------------------------------------------------------
(* Race/ethnicity under varying visa, ethnicity and race texts.            *)

VisaTexts == { NaN, <<" ">>, <<" ", "p", "r">>, <<"F", "1">> }

EthnTexts ==
  { NaN, <<"N", "o">>,
    <<"H", "I", "S", "P", "A", "N", "I", "C", " ", "o", "r", " ",
      "l", "a", "t", "i", "n", "o", " ">> }

RaceTexts == { NaN, <<" ">>, <<" ", "A", "s", "i", "a", "n", " ">>, International }

Demos ==
  { [race_desc |-> r, ethn_desc |-> e, visa_desc |-> v] :
      r \in RaceTexts, e \in EthnTexts, v \in VisaTexts }

\* a WK3 row and an EOT row of one student-term, each with its own texts
RaceEnrollments ==
  { << EnrollRow(<<"1">>, T202210, WK3, B20000615,
                 [majr |-> UNDECIDED, degr |-> BA, college |-> ARTS, legal_sex_desc |-> <<"F">>],
                 d3),
       EnrollRow(<<"1">>, T202210, EOT, B20000615,
                 [majr |-> BIOLOGY, degr |-> BA, college |-> ARTS, legal_sex_desc |-> NaN],
                 de) >> : d3 \in Demos, de \in Demos }

InitRace == InitWith(RaceEnrollments, {SampleGrades}, {GoodCatalog})

SpecRace == InitRace /\ [][Next]_vars

\* the value the code resolves for a column: the WK3 snapshot's when it is
\* recorded there, else the EOT snapshot's; as trimmed text, blank or
\* missing being the empty text
ResolvedText(k, col) ==
  LET v == IF SnapshotValue(k, WK3, col) # NaN THEN SnapshotValue(k, WK3, col)
           ELSE SnapshotValue(k, EOT, col)
  IN  IF v = NaN THEN <<>> ELSE Strip(v)

ResolvedVisa(k) == Upper(ResolvedText(k, "visa_desc"))

hispanic_or_latino ==
  <<"h", "i", "s", "p", "a", "n", "i", "c", " ", "o", "r", " ",
    "l", "a", "t", "i", "n", "o">>

IsInternationalVisa(k) ==
  ResolvedVisa(k) # <<>> /\ ResolvedVisa(k) \notin { <<"P", "R">>, <<"R", "F">>, <<"A", "S">> }

IsHispanic(k) == Lower(ResolvedText(k, "ethn_desc")) = hispanic_or_latino

\* visa, then ethnicity, then race
Precedence(r) ==
  LET k == Key(r)
      race == ResolvedText(k, "race_desc")
  IN  /\ IsInternationalVisa(k) => r.race_ethnicity = International
      /\ (~IsInternationalVisa(k) /\ IsHispanic(k)) =>
           r.race_ethnicity = HispanicOrLatino
      /\ (~IsInternationalVisa(k) /\ ~IsHispanic(k)) =>
           r.race_ethnicity = (IF race # <<>> THEN race ELSE Unknown)

NonBlankPreferred(k, col) ==
  LET a == SnapshotValue(k, WK3, col)
      b == SnapshotValue(k, EOT, col)
      v == IF a # NaN /\ Strip(a) # <<>> THEN a ELSE b
  IN  IF v = NaN THEN <<>> ELSE Strip(v)

\* the category of a visa, an ethnicity and a race text
CategoryOf(visa, ethn, race) ==
  IF visa # <<>> /\ visa \notin { <<"P", "R">>, <<"R", "F">>, <<"A", "S">> }
  THEN International
  ELSE IF Lower(ethn) = hispanic_or_latino THEN HispanicOrLatino
  ELSE IF race # <<>> THEN race
  ELSE Unknown

\* C11: for each of visa, ethnicity and race the resolved value is the WK3
\* value if that value is present and non-blank, otherwise the EOT value, so
\* the category is the one of the values resolved this way; in particular a
\* row whose WK3 visa is a blank string and whose EOT visa is a non-blank
\* code outside {PR, RF, AS} is categorised "International".
C11_PreferNonBlankWK3 ==
  \A i \in DOMAIN student_term :
    LET r == student_term[i]
        k == Key(r)
        visa3 == SnapshotValue(k, WK3, "visa_desc")
        visaE == SnapshotValue(k, EOT, "visa_desc")
    IN  "race_ethnicity" \in DOMAIN r =>
          /\ r.race_ethnicity =
               CategoryOf(Upper(NonBlankPreferred(k, "visa_desc")),
                          NonBlankPreferred(k, "ethn_desc"),
                          NonBlankPreferred(k, "race_desc"))
          /\ ( /\ visa3 # NaN /\ Strip(visa3) = <<>>
               /\ visaE # NaN /\ Strip(visaE) # <<>>
               /\ Upper(Strip(visaE)) \notin { <<"P", "R">>, <<"R", "F">>, <<"A", "S">> } )
             => r.race_ethnicity = International

-----------------------------------------------------------------------------
(* Age under varying term codes and birth dates.                           *)

T202220 == <<"2", "0", "2", "2", "2", "0">>

\* term codes as the file may hold them: the six mapped suffixes, an
\* unmapped one, another year, a leading blank, seven characters, a signed
\* suffix, a non-numeric suffix, too short, a non-numeric year, year 0000,
\* and none
TermCodes ==
  { T202210, T202220,
    <<"2", "0", "2", "2", "3", "0">>, <<"2", "0", "2", "2", "4", "0">>,
    <<"2", "0", "2", "2", "5", "0">>, <<"2", "0", "2", "2", "7", "0">>,
    <<"2", "0", "2", "2", "9", "9">>, <<"2", "0", "2", "3", "2", "0">>,
    <<" ", "2", "0", "2", "2", "1", "0">>,
    <<"2", "0", "2", "2", "x", "1", "0">>,
    <<"2", "0", "2", "2", "-", "1">>,
    <<"2", "0", "2", "2", "1", "x">>,
    <<"2", "0", "2", "2">>,
    <<"a", "b", "c", "d", "1", "0">>,
    <<"0", "0", "0", "0", "1", "0">>,
    NaN }

\* birth dates of the WK3 row: around the three as-of dates, a leap day, one
\* on and one after an as-of date of 2022, an impossible day, other text,
\* and none
BirthTexts ==
  { B20000615,
    <<"2", "0", "0", "0", "-", "0", "3", "-", "0", "1">>,
    <<"2", "0", "0", "0", "-", "0", "2", "-", "2", "9">>,
    <<"2", "0", "0", "0", "-", "1", "0", "-", "0", "1">>,
    <<"2", "0", "0", "0", "-", "1", "0", "-", "0", "2">>,
    <<"2", "0", "2", "2", "-", "0", "3", "-", "0", "1">>,
    <<"2", "0", "2", "3", "-", "0", "1", "-", "1", "5">>,
    <<"2", "0", "0", "0", "-", "0", "2", "-", "3", "0">>,
    <<"j", "u", "n", "k">>,
    NaN }

\* birth dates of the EOT row
BirthTextsEnd ==
  { <<"1", "9", "9", "9", "-", "0", "7", "-", "0", "1">>, <<"j", "u", "n", "k">>, NaN }

AgeEnrollments ==
  { << EnrollRow(<<"1">>, t, WK3, b3,
                 [majr |-> UNDECIDED, degr |-> BA, college |-> ARTS, legal_sex_desc |-> <<"F">>],
                 PlainDemo),
       EnrollRow(<<"1">>, t, EOT, be,
                 [majr |-> BIOLOGY, degr |-> BA, college |-> ARTS, legal_sex_desc |-> NaN],
                 PlainDemo) >> : t \in TermCodes, b3 \in BirthTexts, be \in BirthTextsEnd }

InitAge == InitWith(AgeEnrollments, {SampleGrades}, {GoodCatalog})

SpecAge == InitAge /\ [][Next]_vars

\* the birth date of a student-term: the WK3 snapshot's text when recorded,
\* else the EOT snapshot's, parsed
BirthOf(k) ==
  ToDatetime(IF SnapshotValue(k, WK3, "birth_date") # NaN
             THEN SnapshotValue(k, WK3, "birth_date")
             ELSE SnapshotValue(k, EOT, "birth_date"))

\* a term code that gives a reference date: at least six characters, a
\* four-digit year that is a calendar year, an integer in the last two
TermParses(t) ==
  /\ Len(t) >= 6
  /\ AllDigits(SubSeq(t, 1, 4))
  /\ DigitsValue(SubSeq(t, 1, 4)) >= 1
  /\ PyIntOk(SubSeq(t, Len(t) - 1, Len(t)))

\* the reference month of a suffix: March for 20, July for 30, 40 and 50,
\* October for 10, 70 and anything else
ReferenceMonth(suffix) ==
  IF suffix = 20 THEN 3 ELSE IF suffix \in {30, 40, 50} THEN 7 ELSE 10

ReferenceDate(t) ==
  <<DigitsValue(SubSeq(t, 1, 4)),
    ReferenceMonth(PyIntValue(SubSeq(t, Len(t) - 1, Len(t)))), 1>>

\* calendar order of dates
DateLeq(a, b) ==
  \/ a[1] < b[1]
  \/ a[1] = b[1] /\ a[2] < b[2]
  \/ a[1] = b[1] /\ a[2] = b[2] /\ a[3] <= b[3]

\* the number of birthdays reached by the reference date
ExactAge(birth, ref) ==
  CHOOSE n \in -200..200 :
    /\ DateLeq(<<birth[1] + n, birth[2], birth[3]>>, ref)
    /\ ~DateLeq(<<birth[1] + n + 1, birth[2], birth[3]>>, ref)

\* C6: for every parseable birth date and term code, age is the exact
\* integer age on the reference date (year from the first four characters,
\* month from the suffix map with October as default, day 1); birth
\* 2000-06-15 gives 22 for term 202210 and 21 for term 202220.
C6_ExactAge ==
  \A i \in DOMAIN student_term :
    LET r == student_term[i]
        k == Key(r)
    IN  ("age" \in DOMAIN r /\ BirthOf(k) # NaT /\ TermParses(k[2])) =>
          /\ r.age = Num(ExactAge(BirthOf(k), ReferenceDate(k[2])))
          /\ (BirthOf(k) = <<2000, 6, 15>> /\ k[2] = T202210) => r.age = Num(22)
          /\ (BirthOf(k) = <<2000, 6, 15>> /\ k[2] = T202220) => r.age = Num(21)

\* the row of term 202220 whose birthday, 15 June, is still ahead
C6_Witness ==
  \E i \in DOMAIN student_term :
    LET r == student_term[i]
    IN  /\ "age" \in DOMAIN r
        /\ r.term_code = T202220 /\ r.birth_date_w3 = B20000615
        /\ r.age = Num(21)

\* C10: if the birth date or the term code of a row cannot be parsed into a
\* date the row's age is missing, never zero, and no term code or birth date
\* makes the age step raise an exception that aborts the run.
C10_UnparseableGivesMissingAge ==
  /\ ~(pc = "aborted" /\ error = "ValueError")
  /\ \A i \in DOMAIN student_term :
       LET r == student_term[i]
           k == Key(r)
       IN  ("age" \in DOMAIN r /\ (BirthOf(k) = NaT \/ ~TermParses(k[2]))) =>
             r.age = NaNum /\ r.age # Num(0)

-----------------------------------------------------------------------------
(* Input files that may be absent.                                         *)

MaxFileRows == 1

InitFiles ==
  InitFrom(SeqsUpTo(EnrollPool, MaxFileRows), {SampleGrades}, {GoodCatalog},
           SUBSET InputFiles)

SpecFiles == InitFiles /\ [][Next]_vars

SomeInputAbsent == present # InputFiles

\* the presence check has run and has reported exactly the absent paths
MissingReported ==
  pc # "check" => log = InputFiles \ present

\* C12 as stated: when a required input file is absent the loader reports
\* the missing file and the run continues past the load stage instead of
\* aborting.
C12_Original ==
  SomeInputAbsent =>
    /\ MissingReported
    /\ pc # "aborted"

\* C12 amended: when a required input file is absent the presence check
\* reports the missing file and does not itself stop the run; the load that
\* follows raises FileNotFoundError on the first absent file, which aborts
\* the run at the load stage: no later step runs and nothing is exported.
C12_MissingFileAbortsAtLoad ==
  SomeInputAbsent =>
    /\ MissingReported
    /\ pc \in {"check", "load", "aborted"}
    /\ pc = "aborted" => error = "FileNotFoundError"
    /\ pc # "aborted" => error = "none"
    /\ program_data = <<>> /\ enroll_plus_gr = <<>> /\ df_final = <<>>
    /\ student_term = <<>> /\ student_level = <<>>
    /\ ~csv.written

\* a run ended by the load after the check reported grades.csv alone, the
\* enrollment file having been read
C12_Witness ==
  /\ pc = "aborted" /\ error = "FileNotFoundError"
  /\ log = {"grades.csv"}
  /\ fall_enrollment = file_enrollment /\ fall_enrollment # <<>>
  /\ grades = <<>>

-----------------------------------------------------------------------------
(* The analysis script (DU_IRA_Assessment_Analysis_Code): it reads the     *)
(* exported CSV, saves three histograms beside it, writes one workbook and *)
(* removes the histograms.  disk is the set of files of the final-data     *)
(* folder other than the CSV, created the set of images this run saved.    *)

age_plot == "age_distribution.png"

gpa_plot == "gpa_distribution.png"

degree_plot == "degree_grade_distributions.png"

out_xlsx == "DU_IRA_Assessment_Report.xlsx"

PlotImages == {age_plot, gpa_plot, degree_plot}

\* the cleaning variables are not touched by the analysis script
CleaningUnchanged ==
  UNCHANGED <<pc, error, present, log, file_enrollment, file_grades, file_program,
              fall_enrollment, grades, program_data,
              enroll_plus_gr, df_final, term_gpa,
              w3, end, student_term, student_level, dup_count, csv>>

\* line 36: pd.read_csv(in_path) raises FileNotFoundError when the cleaning
\* script has not exported the CSV
ReadFinal ==
  /\ apc = "read"
  /\ IF csv.written
     THEN apc' = "age_plot" /\ aerror' = aerror
     ELSE apc' = "aborted" /\ aerror' = "FileNotFoundError"
  /\ UNCHANGED <<disk, created>>
  /\ CleaningUnchanged

\* the outcomes of plt.savefig: the image is saved, or the file cannot be
\* opened for writing and the call raises
SaveFigOutcomes == {"saved", "raised"}

\* plt.savefig(path) creates or overwrites the image; an exception, uncaught,
\* ends the script
SaveFig(path, next) ==
  /\ \E outcome \in SaveFigOutcomes :
       IF outcome = "saved"
       THEN /\ disk' = disk \cup {path}
            /\ created' = created \cup {path}
            /\ apc' = next
            /\ aerror' = aerror
       ELSE /\ disk' = disk
            /\ created' = created
            /\ apc' = "aborted"
            /\ aerror' = "OSError"
  /\ CleaningUnchanged

\* lines 101-110
AgePlot == apc = "age_plot" /\ SaveFig(age_plot, "gpa_plot")

\* lines 121-130
GpaPlot == apc = "gpa_plot" /\ SaveFig(gpa_plot, "degree_plot")

\* lines 145-158
DegreePlot == apc = "degree_plot" /\ SaveFig(degree_plot, "workbook")

\* the outcomes of the with block of lines 190-219: the workbook is written,
\* or opening or saving it raises (the path is locked or not writable, or
\* the xlsxwriter engine is not installed) and the script ends there
WorkbookOutcomes == {"written", "raised"}

\* lines 190-219: with pd.ExcelWriter(out_xlsx, engine="xlsxwriter"); an
\* exception leaves the with block and, uncaught, ends the script before
\* line 221
WriteWorkbook ==
  /\ apc = "workbook"
  /\ \E outcome \in WorkbookOutcomes :
       IF outcome = "written"
       THEN /\ disk' = disk \cup {out_xlsx}
            /\ apc' = "cleanup"
            /\ aerror' = aerror
       ELSE /\ disk' = disk
            /\ apc' = "aborted"
            /\ aerror' = "OSError"
  /\ UNCHANGED created
  /\ CleaningUnchanged

\* lines 229-231: every image that exists is removed
RemoveImages ==
  /\ apc = "cleanup"
  /\ disk' = disk \ PlotImages
  /\ apc' = "done"
  /\ UNCHANGED <<aerror, created>>
  /\ CleaningUnchanged

NextReport ==
  \/ ReadFinal \/ AgePlot \/ GpaPlot \/ DegreePlot \/ WriteWorkbook \/ RemoveImages

\* the folder before the analysis runs: the CSV exported or not, and any of
\* the script's own files left by an earlier run
InitReport ==
  /\ file_enrollment = <<>> /\ file_grades = <<>> /\ file_program = <<>>
  /\ present = InputFiles /\ log = {}
  /\ pc \in {"check", "done"}
  /\ error = "none"
  /\ fall_enrollment = <<>> /\ grades = <<>> /\ program_data = <<>>
  /\ enroll_plus_gr = <<>> /\ df_final = <<>> /\ term_gpa = <<>>
  /\ w3 = <<>> /\ end = <<>> /\ student_term = <<>> /\ student_level = <<>>
  /\ dup_count = 0
  /\ csv = IF pc = "done" THEN [written |-> TRUE, rows |-> <<>>] ELSE NotWritten
  /\ apc = "read" /\ aerror = "none" /\ created = {}
  /\ disk \in SUBSET (PlotImages \cup {out_xlsx})

SpecReport == InitReport /\ [][NextReport]_vars

\* C13: in the reporting stage every intermediate plot image file it
\* created (age, GPA and degree histograms) is removed by the time the run
\* ends, whether or not writing the workbook succeeded: a run that ended
\* normally, or that ended because writing the workbook raised after the
\* three images were saved, leaves none of them.
C13_ImagesRemoved ==
  (apc = "done" \/ (apc = "aborted" /\ created = PlotImages)) =>
    created \cap disk = {}

====
